---- MODULE Spec2Model ----
(***************************************************************************)
(* PollenStore: a log-structured key-value store (BitCask style).          *)
(*                                                                         *)
(* The model has two layers.                                               *)
(*   - The record codec (pollen.format): pure operators over byte          *)
(*     sequences.  A text is a sequence of Unicode code points, a byte     *)
(*     buffer is a sequence of numbers 0..255; encoding is UTF-8 for the   *)
(*     payloads and three little-endian unsigned 32-bit fields for the     *)
(*     header.                                                             *)
(*   - The storage engine (pollen.disk_store.DiskStorage): the log file,   *)
(*     the key directory, the write position and the file handle, with one *)
(*     action per public method.                                           *)
(*                                                                         *)
(* Spec is the engine with an environment that never fails a write: the    *)
(* process may die between two calls, and the log always holds whole       *)
(* records.  FaultSpec is the engine with writes that may fail after some  *)
(* bytes reached the file, which leaves partly written records in the log. *)
(* CodecSpec is the codec alone: its functions applied to arguments drawn  *)
(* from the whole unsigned 32-bit range and just outside it.               *)
(***************************************************************************)
EXTENDS Integers, Sequences, FiniteSets, TLC

(***************************************************************************)
(* Bounds of the model.                                                    *)
(***************************************************************************)
\* Number of records a behaviour may append when no write fails.
MaxAppends == 3
\* Number of writes the environment may fail (FaultSpec only), and the number
\* of records a behaviour may try to append where writes can fail.
MaxFaults == 1
MaxFaultAppends == 2

\* Texts the callers pass: "a" and "éb" as keys (1 and 3 UTF-8 bytes),
\* "" and "xé" as values (0 and 3 UTF-8 bytes).
Keys == { <<97>>, <<233, 98>> }
Values == { <<>>, <<120, 233>> }
\* Values int(time.time()) may return: one that fits a byte, one that does not.
Timestamps == { 1, 300 }

(***************************************************************************)
(* Numbers.  Python integers are unbounded; the model checker's are 32-bit *)
(* signed.  Every quantity at or above Huge is kept as Huge: at the file   *)
(* sizes explored here all such offsets and sizes lie far past end of      *)
(* file, which is the only thing the engine's reads ever observe of them.  *)
(* Values decoded from records the engine itself wrote stay far below it.  *)
(*                                                                         *)
(* The codec must tell 2^32 - 1 from 2^32, so its header fields are exact: *)
(* an integer n is the pair of limbs hi, lo with n = hi * 65536 + lo and   *)
(* lo in 0..65535.  Wide takes a small integer to its limbs, Narrow takes  *)
(* limbs to the number the engine computes with.                           *)
(***************************************************************************)
Huge == 536870912

Min(a, b) == IF a <= b THEN a ELSE b

Add(a, b) == IF a >= Huge \/ b >= Huge \/ a + b >= Huge THEN Huge ELSE a + b

Wide(n) == [hi |-> n \div 65536, lo |-> n % 65536]

Narrow(w) ==
    IF \/ w.hi > Huge \div 65536
       \/ (w.hi = Huge \div 65536 /\ w.lo >= Huge % 65536)
    THEN Huge
    ELSE w.hi * 65536 + w.lo

(***************************************************************************)
(* Byte buffers.                                                           *)
(***************************************************************************)
\* bytes[start:stop] of Python: 0-based, stop exclusive, clipped to the buffer.
Slice(bytes, start, stop) ==
    IF start >= Len(bytes) \/ stop <= start THEN <<>>
    ELSE SubSeq(bytes, start + 1, Min(stop, Len(bytes)))

\* f.read(n) at offset pos of a file holding bytes: short at end of file.
Read(bytes, pos, n) == Slice(bytes, pos, Add(pos, n))

\* struct "<L": one unsigned 32-bit little-endian field.
PackU32(n) ==
    << n.lo % 256, n.lo \div 256, n.hi % 256, n.hi \div 256 >>

UnpackU32(bytes, at) ==
    [hi |-> bytes[at + 3] + 256 * bytes[at + 4],
     lo |-> bytes[at + 1] + 256 * bytes[at + 2]]

(***************************************************************************)
(* UTF-8 (str.encode / bytes.decode("utf-8")) for code points below        *)
(* 65536.                                                                  *)
(***************************************************************************)
Utf8Char(c) ==
    IF c < 128 THEN << c >>
    ELSE IF c < 2048 THEN << 192 + (c \div 64), 128 + (c % 64) >>
    ELSE << 224 + (c \div 4096), 128 + ((c \div 64) % 64), 128 + (c % 64) >>

RECURSIVE Utf8Encode(_)
Utf8Encode(text) ==
    IF text = <<>> THEN <<>>
    ELSE Utf8Char(Head(text)) \o Utf8Encode(Tail(text))

IsCont(b) == b >= 128 /\ b <= 191

\* The decoding of a byte buffer: [ok, text]; ok is FALSE where Python raises
\* UnicodeDecodeError (a stray continuation byte, a cut or overlong sequence).
RECURSIVE Utf8Decode(_)
Utf8Decode(bytes) ==
    IF bytes = <<>> THEN [ok |-> TRUE, text |-> <<>>]
    ELSE
      LET b0 == bytes[1]
          n  == IF b0 < 128 THEN 1
                ELSE IF b0 >= 194 /\ b0 <= 223 THEN 2
                ELSE IF b0 >= 224 /\ b0 <= 239 THEN 3
                ELSE 0
          wellFormed ==
              /\ n > 0
              /\ Len(bytes) >= n
              /\ \A i \in 2..n : IsCont(bytes[i])
              /\ (n = 3 /\ b0 = 224) => bytes[2] >= 160
          c  == IF n = 1 THEN b0
                ELSE IF n = 2 THEN (b0 - 192) * 64 + (bytes[2] - 128)
                ELSE (b0 - 224) * 4096 + (bytes[2] - 128) * 64 + (bytes[3] - 128)
      IN IF ~wellFormed THEN [ok |-> FALSE, text |-> <<>>]
         ELSE LET rest == Utf8Decode(Slice(bytes, n, Len(bytes)))
              IN IF rest.ok THEN [ok |-> TRUE, text |-> <<c>> \o rest.text]
                 ELSE rest

(***************************************************************************)
(* The record codec.                                                       *)
(***************************************************************************)
HEADER_SIZE == 12

\* A field fits the header when it lies in [0, 2^32 - 1].
FitsU32(n) == n.hi >= 0 /\ n.hi < 65536

CodecError(kind) ==
    [ok |-> FALSE, error |-> kind, bytes |-> <<>>, size |-> 0,
     timestamp |-> Wide(0), key_size |-> Wide(0), value_size |-> Wide(0),
     key |-> <<>>, value |-> <<>>]

CodecOk ==
    [ok |-> TRUE, error |-> "", bytes |-> <<>>, size |-> 0,
     timestamp |-> Wide(0), key_size |-> Wide(0), value_size |-> Wide(0),
     key |-> <<>>, value |-> <<>>]

\* encode_header that keeps the low 32 bits of a field that does not fit.
encode_header_wraps(timestamp, key_size, value_size) ==
    LET low(n) == [hi |-> n.hi % 65536, lo |-> n.lo]
    IN [CodecOk EXCEPT !.bytes = PackU32(low(timestamp)) \o PackU32(low(key_size))
                                   \o PackU32(low(value_size))]

encode_header(timestamp, key_size, value_size) ==
    IF FitsU32(timestamp) /\ FitsU32(key_size) /\ FitsU32(value_size)
    THEN [CodecOk EXCEPT !.bytes = PackU32(timestamp) \o PackU32(key_size)
                                   \o PackU32(value_size)]
    ELSE CodecError("RangeError")

decode_header(bytes) ==
    IF Len(bytes) # HEADER_SIZE THEN CodecError("MalformedInputError")
    ELSE [CodecOk EXCEPT !.timestamp = UnpackU32(bytes, 0),
                         !.key_size = UnpackU32(bytes, 4),
                         !.value_size = UnpackU32(bytes, 8)]

\* encode_kv with len(key), len(value) for the lengths of their encodings.
encode_kv_char_count(timestamp, key, value) ==
    LET key_bytes == Utf8Encode(key)
        value_bytes == Utf8Encode(value)
        header == encode_header(timestamp, Wide(Len(key)), Wide(Len(value)))
    IN IF ~header.ok THEN header
       ELSE [CodecOk EXCEPT
               !.size = HEADER_SIZE + Len(key) + Len(value),
               !.bytes = header.bytes \o key_bytes \o value_bytes]

encode_kv(timestamp, key, value) ==
    LET key_bytes == Utf8Encode(key)
        value_bytes == Utf8Encode(value)
        header == encode_header(timestamp, Wide(Len(key_bytes)),
                                Wide(Len(value_bytes)))
    IN IF ~header.ok THEN header
       ELSE [CodecOk EXCEPT
               !.size = HEADER_SIZE + Len(key_bytes) + Len(value_bytes),
               !.bytes = header.bytes \o key_bytes \o value_bytes]

decode_kv(bytes) ==
    IF Len(bytes) < HEADER_SIZE THEN CodecError("MalformedInputError")
    ELSE
      LET header == decode_header(Slice(bytes, 0, HEADER_SIZE))
          key_end == Add(HEADER_SIZE, Narrow(header.key_size))
          value_end == Add(key_end, Narrow(header.value_size))
      IN IF Len(bytes) < value_end THEN CodecError("MalformedInputError")
         ELSE
           LET key == Utf8Decode(Slice(bytes, HEADER_SIZE, key_end))
               value == Utf8Decode(Slice(bytes, key_end, value_end))
           IN IF ~key.ok \/ ~value.ok THEN CodecError("EncodingError")
              ELSE [CodecOk EXCEPT !.timestamp = header.timestamp,
                                   !.key = key.text, !.value = value.text]

(***************************************************************************)
(* The storage engine.                                                     *)
(*                                                                         *)
(*   exists, file    the log file as the operating system shows it         *)
(*   durable         the bytes of the log that are on stable storage       *)
(*   state           "Unopened" (no DiskStorage instance), "Ready", or     *)
(*                   "Closed" (the instance whose file handle is closed)   *)
(*   key_dir         self.key_dir: key text -> KeyEntry                    *)
(*   write_position  self.write_position                                   *)
(*   offset          the position of the read/write handle self.file       *)
(*   call, ret       the last method called and what it returned or raised *)
(*   live, removed,  what the caller did: the value last set for each key  *)
(*   history         not removed since, the keys whose last mutation was a *)
(*                   remove, and every record appended with the offset at  *)
(*                   which the append landed                               *)
(*   faults          how many writes the environment has failed            *)
(*   faulty          whether the environment may fail writes at all        *)
(*   codec           the call of a codec function made on its own (outside *)
(*                   the engine): its name, arguments and result           *)
(***************************************************************************)
VARIABLES exists, file, durable, state, key_dir, write_position, offset,
          call, ret, live, removed, history, faults, faulty, codec

vars == << exists, file, durable, state, key_dir, write_position, offset,
           call, ret, live, removed, history, faults, faulty, codec >>

EmptyDir == [k \in {} |-> 0]

KeyEntry(timestamp, position, size) ==
    [timestamp |-> timestamp, position |-> position, size |-> size]

Without(f, k) == [x \in (DOMAIN f) \ {k} |-> f[x]]

\* What a method hands back: status "ok" or the name of the error raised,
\* the text returned (get) and the collection returned (list).
Returned(status, value, keys) == [status |-> status, value |-> value, keys |-> keys]

Called(op, key) == [op |-> op, key |-> key]

\* The outcomes of one self._write: the whole buffer reaches the file, or
\* the write, flush or sync raises OSError after n bytes reached it.
IoOk == [ok |-> TRUE, n |-> 0]
IoFail(n) == [ok |-> FALSE, n |-> n]

\* _write on a handle opened "r+b": the bytes go where the handle stands,
\* over what is there.
_write_at_offset(data, io) ==
    LET written == IF io.ok THEN data ELSE Slice(data, 0, io.n)
        result == Slice(file, 0, offset) \o written
                     \o Slice(file, offset + Len(written), Len(file))
    IN [ok |-> io.ok, file |-> result, durable |-> result]

\* _write without the fsync: the bytes reach the file, not stable storage.
_write_no_sync(data, io) ==
    LET written == IF io.ok THEN data ELSE Slice(data, 0, io.n)
    IN [ok |-> io.ok, file |-> file \o written, durable |-> durable]

\* DiskStorage._write: append (mode "a+b" writes at end of file whatever the
\* handle's position), flush, fsync.
_write(data, io) ==
    LET written == IF io.ok THEN data ELSE Slice(data, 0, io.n)
    IN [ok |-> io.ok, file |-> file \o written, durable |-> file \o written]

\* The replay loop of DiskStorage._init_key_dir over the bytes of the log:
\* pos is the position of the reading handle f, kd and wp are self.key_dir
\* and self.write_position.
RECURSIVE _init_key_dir_loop(_, _, _, _)
_init_key_dir_loop(bytes, pos, kd, wp) ==
    LET header_bytes == Read(bytes, pos, HEADER_SIZE)
    IN IF header_bytes = <<>>
       THEN [ok |-> TRUE, error |-> "", key_dir |-> kd, write_position |-> wp]
       ELSE
         LET header == decode_header(header_bytes)
         IN IF ~header.ok
            THEN [ok |-> FALSE, error |-> header.error,
                  key_dir |-> kd, write_position |-> wp]
            ELSE
              LET timestamp == Narrow(header.timestamp)
                  key_size == Narrow(header.key_size)
                  value_size == Narrow(header.value_size)
                  after_header == pos + Len(header_bytes)
                  key_bytes == Read(bytes, after_header, key_size)
                  after_key == after_header + Len(key_bytes)
                  after_value == Add(after_key, value_size)
                  key == Utf8Decode(key_bytes)
                  total_size == Add(Add(HEADER_SIZE, key_size), value_size)
                  kv == KeyEntry(timestamp, wp, total_size)
              IN IF ~key.ok
                 THEN [ok |-> FALSE, error |-> "EncodingError",
                       key_dir |-> kd, write_position |-> wp]
                 ELSE _init_key_dir_loop(bytes, after_value,
                                         (key.text :> kv) @@ kd,
                                         Add(wp, total_size))

\* _init_key_dir without "self.write_position += total_size": every entry
\* is recorded at offset 0.
_init_key_dir_no_advance(bytes) ==
    LET replay == _init_key_dir_loop(bytes, 0, EmptyDir, 0)
    IN [replay EXCEPT
          !.key_dir = [key \in DOMAIN replay.key_dir |->
                          [replay.key_dir[key] EXCEPT !.position = 0]],
          !.write_position = 0]

_init_key_dir(bytes) == _init_key_dir_loop(bytes, 0, EmptyDir, 0)

\* __init__ that leaves self.write_position at 0 after the replay.
__init__at_zero ==
    LET replay == IF exists THEN _init_key_dir(file)
                  ELSE [ok |-> TRUE, error |-> "",
                        key_dir |-> EmptyDir, write_position |-> 0]
    IN IF replay.ok
       THEN [status |-> "ok", state |-> "Ready", key_dir |-> replay.key_dir,
             write_position |-> 0]
       ELSE [status |-> replay.error, state |-> "Unopened", key_dir |-> EmptyDir,
             write_position |-> 0]

\* DiskStorage.__init__: replay the log if the file exists, then open it for
\* append (which creates it).  An exception leaves the caller with no engine.
__init__ ==
    LET replay == IF exists THEN _init_key_dir(file)
                  ELSE [ok |-> TRUE, error |-> "",
                        key_dir |-> EmptyDir, write_position |-> 0]
    IN IF replay.ok
       THEN [status |-> "ok", state |-> "Ready", key_dir |-> replay.key_dir,
             write_position |-> replay.write_position]
       ELSE [status |-> replay.error, state |-> "Unopened", key_dir |-> EmptyDir,
             write_position |-> 0]

\* set with "self.write_position += size" before the entry is built.
set_advance_first(key, value, ts, io) ==
    LET kv == encode_kv(Wide(ts), key, value)
        w == _write(kv.bytes, io)
        same == [status |-> "ok", file |-> file, durable |-> durable,
                 key_dir |-> key_dir, write_position |-> write_position]
    IN IF ~kv.ok THEN [same EXCEPT !.status = kv.error]
       ELSE IF state = "Closed" THEN [same EXCEPT !.status = "ValueError"]
       ELSE IF ~w.ok
       THEN [same EXCEPT !.status = "IOError", !.file = w.file,
                         !.durable = w.durable]
       ELSE [status |-> "ok", file |-> w.file, durable |-> w.durable,
             key_dir |-> (key :> KeyEntry(ts, write_position + kv.size, kv.size))
                         @@ key_dir,
             write_position |-> write_position + kv.size]

\* set without "self.write_position += size".
set_no_advance(key, value, ts, io) ==
    LET kv == encode_kv(Wide(ts), key, value)
        w == _write(kv.bytes, io)
        same == [status |-> "ok", file |-> file, durable |-> durable,
                 key_dir |-> key_dir, write_position |-> write_position]
    IN IF ~kv.ok THEN [same EXCEPT !.status = kv.error]
       ELSE IF state = "Closed" THEN [same EXCEPT !.status = "ValueError"]
       ELSE IF ~w.ok
       THEN [same EXCEPT !.status = "IOError", !.file = w.file,
                         !.durable = w.durable]
       ELSE [status |-> "ok", file |-> w.file, durable |-> w.durable,
             key_dir |-> (key :> KeyEntry(ts, write_position, kv.size)) @@ key_dir,
             write_position |-> write_position]

\* set with the key directory updated before the write.
set_index_first(key, value, ts, io) ==
    LET kv == encode_kv(Wide(ts), key, value)
        w == _write(kv.bytes, io)
        same == [status |-> "ok", file |-> file, durable |-> durable,
                 key_dir |-> key_dir, write_position |-> write_position]
        updated == (key :> KeyEntry(ts, write_position, kv.size)) @@ key_dir
    IN IF ~kv.ok THEN [same EXCEPT !.status = kv.error]
       ELSE IF state = "Closed"
       THEN [same EXCEPT !.status = "ValueError", !.key_dir = updated]
       ELSE IF ~w.ok
       THEN [same EXCEPT !.status = "IOError", !.file = w.file,
                         !.durable = w.durable, !.key_dir = updated]
       ELSE [status |-> "ok", file |-> w.file, durable |-> w.durable,
             key_dir |-> updated,
             write_position |-> write_position + kv.size]

\* DiskStorage.set.  On a closed handle self.file.write raises ValueError.
set(key, value, ts, io) ==
    LET kv == encode_kv(Wide(ts), key, value)
        w == _write(kv.bytes, io)
        same == [status |-> "ok", file |-> file, durable |-> durable,
                 key_dir |-> key_dir, write_position |-> write_position]
    IN IF ~kv.ok THEN [same EXCEPT !.status = kv.error]
       ELSE IF state = "Closed" THEN [same EXCEPT !.status = "ValueError"]
       ELSE IF ~w.ok
       THEN [same EXCEPT !.status = "IOError", !.file = w.file,
                         !.durable = w.durable]
       ELSE [status |-> "ok", file |-> w.file, durable |-> w.durable,
             key_dir |-> (key :> KeyEntry(ts, write_position, kv.size)) @@ key_dir,
             write_position |-> write_position + kv.size]

\* get with self.key_dir[key] for self.key_dir.get(key): KeyError when absent.
get_raises(key) ==
    IF key \notin DOMAIN key_dir
    THEN [status |-> "KeyError", value |-> <<>>, offset |-> offset]
    ELSE IF state = "Closed"
    THEN [status |-> "ValueError", value |-> <<>>, offset |-> offset]
    ELSE
      LET entry == key_dir[key]
          data == Read(file, entry.position, entry.size)
          kv == decode_kv(data)
      IN [status |-> IF kv.ok THEN "ok" ELSE kv.error,
          value |-> kv.value,
          offset |-> entry.position + Len(data)]

\* DiskStorage.get.
get(key) ==
    IF key \notin DOMAIN key_dir
    THEN [status |-> "ok", value |-> <<>>, offset |-> offset]
    ELSE IF state = "Closed"
    THEN [status |-> "ValueError", value |-> <<>>, offset |-> offset]
    ELSE
      LET entry == key_dir[key]
          data == Read(file, entry.position, entry.size)
          kv == decode_kv(data)
      IN [status |-> IF kv.ok THEN "ok" ELSE kv.error,
          value |-> kv.value,
          offset |-> entry.position + Len(data)]

\* remove with "del self.key_dir[key]" before "self.set(key, \"\")".
remove_delete_first(key, ts, io) ==
    IF key \in DOMAIN key_dir
    THEN LET s == set(key, <<>>, ts, io)
         IN IF s.status = "ok" THEN s
            ELSE [s EXCEPT !.key_dir = Without(key_dir, key)]
    ELSE [status |-> "ok", file |-> file, durable |-> durable,
          key_dir |-> key_dir, write_position |-> write_position]

\* remove that marks the key's record in place (zeroes its timestamp field)
\* instead of appending a tombstone.
remove_in_place(key, ts, io) ==
    IF key \in DOMAIN key_dir /\ state = "Ready"
    THEN LET at == key_dir[key].position
             marked == [i \in 1..Len(file) |->
                          IF i > at /\ i <= at + 4 THEN 0 ELSE file[i]]
         IN [status |-> "ok", file |-> marked, durable |-> marked,
             key_dir |-> Without(key_dir, key), write_position |-> write_position]
    ELSE [status |-> "ok", file |-> file, durable |-> durable,
          key_dir |-> key_dir, write_position |-> write_position]

\* remove that only deletes the entry and appends no tombstone.
remove_index_only(key, ts, io) ==
    [status |-> "ok", file |-> file, durable |-> durable,
     key_dir |-> Without(key_dir, key), write_position |-> write_position]

\* remove without the "if key in self.key_dir" test.
remove_always(key, ts, io) ==
    LET s == set(key, <<>>, ts, io)
    IN IF s.status = "ok"
       THEN [s EXCEPT !.key_dir = Without(s.key_dir, key)]
       ELSE s

\* DiskStorage.remove.
remove(key, ts, io) ==
    IF key \in DOMAIN key_dir
    THEN LET s == set(key, <<>>, ts, io)
         IN IF s.status = "ok"
            THEN [s EXCEPT !.key_dir = Without(s.key_dir, key)]
            ELSE s
    ELSE [status |-> "ok", file |-> file, durable |-> durable,
          key_dir |-> key_dir, write_position |-> write_position]

\* DiskStorage.list.
list == DOMAIN key_dir

\* DiskStorage.close: flush, fsync, close the handle.
close ==
    IF state = "Closed"
    THEN [status |-> "ValueError", state |-> state, durable |-> durable]
    ELSE [status |-> "ok", state |-> "Closed", durable |-> file]

(***************************************************************************)
(* The calls.  One action per public method; each is the whole method.     *)
(***************************************************************************)
NoText == <<>>

Start ==
    /\ exists \in BOOLEAN
    /\ file = <<>>
    /\ durable = <<>>
    /\ state = "Unopened"
    /\ key_dir = EmptyDir
    /\ write_position = 0
    /\ offset = 0
    /\ call = Called("none", NoText)
    /\ ret = Returned("ok", NoText, {})
    /\ live = EmptyDir
    /\ removed = {}
    /\ history = <<>>
    /\ faults = 0

\* A direct call of a function of pollen.format.
CodecArgs(timestamp, key_size, value_size, key, value) ==
    [timestamp |-> timestamp, key_size |-> key_size, value_size |-> value_size,
     key |-> key, value |-> value]

CodecCall(op, args, out) == [op |-> op, args |-> args, out |-> out]

NoCodecCall ==
    CodecCall("none", CodecArgs(Wide(0), Wide(0), Wide(0), NoText, NoText), CodecOk)

Init == Start /\ faulty = FALSE /\ codec = NoCodecCall

FaultInit == Start /\ faulty = TRUE /\ codec = NoCodecCall

\* The number of appends a behaviour may still try.
Budget == IF faulty THEN MaxFaultAppends ELSE MaxAppends

\* The record of one append as the caller and the file saw it.
Appended(op, key, value, ts, before, after) ==
    [op |-> op, key |-> key, value |-> value, timestamp |-> ts,
     position |-> Len(before), size |-> Len(after) - Len(before)]

\* store = DiskStorage(file_name), with no other instance open on the file.
Open ==
    /\ state \in {"Unopened", "Closed"}
    /\ LET r == __init__
       IN /\ state' = r.state
          /\ key_dir' = r.key_dir
          /\ write_position' = r.write_position
          /\ exists' = (exists \/ r.status = "ok")
          /\ offset' = IF r.status = "ok" THEN Len(file) ELSE 0
          /\ ret' = Returned(r.status, NoText, {})
    /\ call' = Called("open", NoText)
    /\ UNCHANGED << file, durable, live, removed, history, faults, faulty, codec >>

\* A call of set, through the method or through store[key] = value, with
\* the outcome io of its write.
SetCall(op, key, value, ts, io) ==
    /\ state \in {"Ready", "Closed"}
    /\ state = "Ready" => Len(history) + faults < Budget
    /\ LET s == set(key, value, ts, io)
       IN /\ file' = s.file
          /\ durable' = s.durable
          /\ key_dir' = s.key_dir
          /\ write_position' = s.write_position
          /\ offset' = IF s.file = file THEN offset ELSE Len(s.file)
          /\ ret' = Returned(s.status, NoText, {})
          /\ live' = IF s.status = "ok" THEN (key :> value) @@ live ELSE live
          /\ removed' = IF s.status = "ok" THEN removed \ {key} ELSE removed
          /\ history' = IF s.status = "ok"
                        THEN Append(history, Appended("set", key, value, ts, file, s.file))
                        ELSE history
    /\ faults' = IF io.ok THEN faults ELSE faults + 1
    /\ call' = Called(op, key)
    /\ UNCHANGED << exists, state, faulty, codec >>

Set(key, value, ts) == SetCall("set", key, value, ts, IoOk)

SetItem(key, value, ts) == SetCall("__setitem__", key, value, ts, IoOk)

GetCall(op, key) ==
    /\ state \in {"Ready", "Closed"}
    /\ LET g == get(key)
       IN /\ offset' = g.offset
          /\ ret' = Returned(g.status, g.value, {})
    /\ call' = Called(op, key)
    /\ UNCHANGED << exists, file, durable, state, key_dir, write_position,
                    live, removed, history, faults, faulty, codec >>

Get(key) == GetCall("get", key)

GetItem(key) == GetCall("__getitem__", key)

RemoveCall(key, ts, io) ==
    /\ state \in {"Ready", "Closed"}
    /\ (state = "Ready" /\ key \in DOMAIN key_dir)
          => Len(history) + faults < Budget
    /\ LET r == remove(key, ts, io)
       IN /\ file' = r.file
          /\ durable' = r.durable
          /\ key_dir' = r.key_dir
          /\ write_position' = r.write_position
          /\ offset' = IF r.file = file THEN offset ELSE Len(r.file)
          /\ ret' = Returned(r.status, NoText, {})
          /\ live' = IF r.status = "ok" THEN Without(live, key) ELSE live
          /\ removed' = IF r.status = "ok" THEN removed \cup {key} ELSE removed
          /\ history' = IF r.status = "ok" /\ r.file # file
                        THEN Append(history, Appended("remove", key, NoText, ts, file, r.file))
                        ELSE history
    /\ faults' = IF io.ok THEN faults ELSE faults + 1
    /\ call' = Called("remove", key)
    /\ UNCHANGED << exists, state, faulty, codec >>

Remove(key, ts) == RemoveCall(key, ts, IoOk)

List ==
    /\ state \in {"Ready", "Closed"}
    /\ ret' = Returned("ok", NoText, list)
    /\ call' = Called("list", NoText)
    /\ UNCHANGED << exists, file, durable, state, key_dir, write_position,
                    offset, live, removed, history, faults, faulty, codec >>

Close ==
    /\ state \in {"Ready", "Closed"}
    /\ LET c == close
       IN /\ state' = c.state
          /\ durable' = c.durable
          /\ ret' = Returned(c.status, NoText, {})
    /\ call' = Called("close", NoText)
    /\ UNCHANGED << exists, file, key_dir, write_position, offset,
                    live, removed, history, faults, faulty, codec >>

\* The process dies between two calls: the instance is gone and the file
\* holds what was on stable storage.
Crash ==
    /\ state \in {"Ready", "Closed"}
    /\ state' = "Unopened"
    /\ file' = durable
    /\ key_dir' = EmptyDir
    /\ write_position' = 0
    /\ offset' = 0
    /\ call' = Called("crash", NoText)
    /\ ret' = Returned("ok", NoText, {})
    /\ UNCHANGED << exists, durable, live, removed, history, faults, faulty, codec >>

\* Where a failing write of a record of the given size may stop: before its
\* first byte, inside its header, one byte short of its end, or at its end
\* (the bytes are all written and the flush or the sync raises).
Cuts(size) == { 0, 5, size - 1, size }

\* A set whose write, flush or sync raises after n bytes reached the file.
SetFails(key, value, ts) ==
    /\ state = "Ready"
    /\ faults < MaxFaults
    /\ \E n \in Cuts(encode_kv(Wide(ts), key, value).size) :
          SetCall("set", key, value, ts, IoFail(n))

\* A remove of a present key whose tombstone write fails likewise.
RemoveFails(key, ts) ==
    /\ state = "Ready"
    /\ faults < MaxFaults
    /\ key \in DOMAIN key_dir
    /\ \E n \in Cuts(encode_kv(Wide(ts), key, NoText).size) :
          RemoveCall(key, ts, IoFail(n))

\* int(time.time()): the clock does not run backwards between two appends.
Clock ==
    { ts \in Timestamps :
        history = <<>> \/ ts >= history[Len(history)].timestamp }

\* The keys a caller asks for: the ones it uses and whatever the index holds.
AskedKeys == Keys \cup DOMAIN key_dir

Next ==
    \/ Open
    \/ \E key \in Keys, value \in Values, ts \in Clock : Set(key, value, ts)
    \/ \E key \in Keys, value \in Values, ts \in Clock : SetItem(key, value, ts)
    \/ \E key \in AskedKeys : Get(key)
    \/ \E key \in AskedKeys : GetItem(key)
    \/ \E key \in AskedKeys, ts \in Clock : Remove(key, ts)
    \/ List
    \/ Close
    \/ Crash

Spec == Init /\ [][Next]_vars

\* The calls of FaultSpec: a caller that leaves a closed engine alone, and an
\* environment that may fail writes.
NextFault ==
    \/ Open
    \/ /\ state = "Ready"
       /\ \E key \in Keys, value \in Values, ts \in Clock : Set(key, value, ts)
    \/ /\ state = "Ready"
       /\ \E key \in AskedKeys : Get(key)
    \/ /\ state = "Ready"
       /\ \E key \in AskedKeys, ts \in Clock : Remove(key, ts)
    \/ /\ state = "Ready"
       /\ Close
    \/ Crash
    \/ \E key \in Keys, value \in Values, ts \in Clock : SetFails(key, value, ts)
    \/ \E key \in AskedKeys, ts \in Clock : RemoveFails(key, ts)

FaultSpec == FaultInit /\ [][NextFault]_vars

(***************************************************************************)
(* The codec on its own: the arguments are drawn at the start, one action  *)
(* per function.  Header fields run from below 0 to above 2^32 - 1.        *)
(***************************************************************************)
U32Max == [hi |-> 65535, lo |-> 65535]

TwoTo32 == [hi |-> 65536, lo |-> 0]

Fields ==
    { Wide(-1), Wide(0), Wide(5), Wide(10000), [hi |-> 32768, lo |-> 0],
      U32Max, TwoTo32, [hi |-> 65536, lo |-> 5] }

\* "", "a", "éb" and "h€": 0, 1, 3 and 4 UTF-8 bytes.
Texts == { <<>>, <<97>>, <<233, 98>>, <<104, 8364>> }

CodecInputs ==
    { CodecArgs(t, ks, vs, NoText, NoText) : t \in Fields, ks \in Fields, vs \in Fields }
    \cup { CodecArgs(t, Wide(0), Wide(0), k, v) : t \in Fields, k \in Texts, v \in Texts }

CodecInit ==
    /\ Start
    /\ exists = FALSE
    /\ faulty = FALSE
    /\ codec \in { CodecCall("none", args, CodecOk) : args \in CodecInputs }

EncodeHeader ==
    /\ codec.op = "none"
    /\ codec' = CodecCall("encode_header", codec.args,
                          encode_header(codec.args.timestamp, codec.args.key_size,
                                        codec.args.value_size))
    /\ UNCHANGED << exists, file, durable, state, key_dir, write_position, offset,
                    call, ret, live, removed, history, faults, faulty >>

\* decode_header of what encode_header returned.
DecodeHeader ==
    /\ codec.op = "encode_header"
    /\ codec.out.ok
    /\ codec' = CodecCall("decode_header", codec.args, decode_header(codec.out.bytes))
    /\ UNCHANGED << exists, file, durable, state, key_dir, write_position, offset,
                    call, ret, live, removed, history, faults, faulty >>

EncodeKv ==
    /\ codec.op = "none"
    /\ codec' = CodecCall("encode_kv", codec.args,
                          encode_kv(codec.args.timestamp, codec.args.key,
                                    codec.args.value))
    /\ UNCHANGED << exists, file, durable, state, key_dir, write_position, offset,
                    call, ret, live, removed, history, faults, faulty >>

\* decode_kv of the buffer encode_kv returned.
DecodeKv ==
    /\ codec.op = "encode_kv"
    /\ codec.out.ok
    /\ codec' = CodecCall("decode_kv", codec.args, decode_kv(codec.out.bytes))
    /\ UNCHANGED << exists, file, durable, state, key_dir, write_position, offset,
                    call, ret, live, removed, history, faults, faulty >>

NextCodec ==
    \/ EncodeHeader
    \/ DecodeHeader
    \/ EncodeKv
    \/ DecodeKv

CodecSpec == CodecInit /\ [][NextCodec]_vars

(***************************************************************************)
(* What the caller and the file saw, for stating the properties.           *)
(***************************************************************************)
Ok(value) == Returned("ok", value, {})

GetOps == {"get", "__getitem__"}

\* The appended records of a key, and the last of them.
RecordsOf(key) == { i \in 1..Len(history) : history[i].key = key }

Latest(key) ==
    history[CHOOSE i \in RecordsOf(key) : \A j \in RecordsOf(key) : j <= i]

\* A log made of whole records only: every header is complete and the key
\* and value it announces end at or before end of file.
RECURSIVE WholeRecords(_)
WholeRecords(bytes) ==
    \/ bytes = <<>>
    \/ /\ Len(bytes) >= HEADER_SIZE
       /\ LET total == Add(Add(HEADER_SIZE, Narrow(UnpackU32(bytes, 4))),
                            Narrow(UnpackU32(bytes, 8)))
          IN /\ total <= Len(bytes)
             /\ WholeRecords(Slice(bytes, total, Len(bytes)))

(***************************************************************************)
(* C1.  In a Ready engine a get (or store[k]) of a key whose most recent   *)
(* mutating call was set(k, v) returns exactly v, however often k was      *)
(* overwritten or removed before.                                          *)
(***************************************************************************)
C1_GetReturnsLastSet ==
    (state = "Ready" /\ call.op \in GetOps /\ call.key \in DOMAIN live)
        => ret = Ok(live[call.key])

\* store[k] read back after k was set, removed and set again.
C1_Witness ==
    /\ state = "Ready"
    /\ call.op = "__getitem__"
    /\ ret = Ok(<<120, 233>>)
    /\ Len(history) = 3
    /\ \A i \in 1..3 : history[i].key = call.key
    /\ history[1].op = "set" /\ history[2].op = "remove" /\ history[3].op = "set"

(***************************************************************************)
(* C2.  Right after a successful open, every key that was set and not      *)
(* removed since has a key directory entry whose position and size are     *)
(* those of the key's latest record, and get returns the last value set.   *)
(***************************************************************************)
C2_ReplayPointsAtLatest ==
    (call.op = "open" /\ ret.status = "ok")
        => \A key \in DOMAIN live :
              /\ key \in DOMAIN key_dir
              /\ key_dir[key].position = Latest(key).position
              /\ key_dir[key].size = Latest(key).size
              /\ get(key).status = "ok"
              /\ get(key).value = live[key]

\* A reopen over a log holding two keys, one of them overwritten.
C2_Witness ==
    /\ call.op = "open" /\ ret.status = "ok"
    /\ Cardinality(DOMAIN live) = 2
    /\ \E key \in DOMAIN live :
          /\ Cardinality(RecordsOf(key)) = 2
          /\ live[key] # NoText
          /\ key_dir[key].position > 0

(***************************************************************************)
(* C3.  After remove(k), get(k) returns "" in the same session and in      *)
(* every later one: the removed value never becomes readable again.        *)
(***************************************************************************)
C3_RemovedReadsEmpty ==
    (state = "Ready" /\ call.op \in GetOps /\ call.key \in removed)
        => ret = Ok(NoText)

\* get of a key that was set to a non-empty value, removed, and whose
\* tombstone a later replay has read back into the key directory.
C3_Witness ==
    /\ state = "Ready"
    /\ call.op = "get"
    /\ call.key \in removed
    /\ call.key \in DOMAIN key_dir
    /\ ret = Ok(NoText)
    /\ \E i \in RecordsOf(call.key) : history[i].value # NoText

(***************************************************************************)
(* C4.  list(), as a set, is exactly the set of keys set and not removed   *)
(* since, also after a close and reopen.                                   *)
(***************************************************************************)
C4_ListIsLiveKeys ==
    (state = "Ready" /\ call.op = "list") => ret.keys = DOMAIN live

(***************************************************************************)
(* C5.  An open on a log that is not made of whole records fails and       *)
(* hands out no engine; no open succeeds with an entry that reaches past   *)
(* end of file.  (Stated for any error, whatever its class.)               *)
(***************************************************************************)
C5_TruncatedLogRejected ==
    call.op = "open" =>
        /\ ~WholeRecords(file) => (ret.status # "ok" /\ state = "Unopened")
        /\ ret.status = "ok" =>
              \A key \in DOMAIN key_dir :
                  Add(key_dir[key].position, key_dir[key].size) <= Len(file)

(***************************************************************************)
(* C6.  A set whose write fails reports IOError and leaves the key         *)
(* directory (and the write position) as they were.                        *)
(***************************************************************************)
C6_FailedSetKeepsKeyDir ==
    [][ (call'.op = "set" /\ faults' = faults + 1)
           => /\ ret'.status = "IOError"
              /\ key_dir' = key_dir
              /\ write_position' = write_position ]_vars

\* A failed set of a key already in the key directory, with bytes of the
\* record left at the tail of the file.
C6_Witness ==
    /\ call.op = "set"
    /\ ret.status = "IOError"
    /\ call.key \in DOMAIN key_dir
    /\ Len(file) > write_position

(***************************************************************************)
(* C7.  At every point between two calls the bytes on stable storage       *)
(* replay to an index under which each key reads the value last set: a     *)
(* crash there followed by a fresh open loses no set that has returned.    *)
(***************************************************************************)
C7_ReturnedSetsAreDurable ==
    LET replay == _init_key_dir(durable)
    IN /\ replay.ok
       /\ \A key \in DOMAIN live :
             /\ key \in DOMAIN replay.key_dir
             /\ LET entry == replay.key_dir[key]
                    kv == decode_kv(Read(durable, entry.position, entry.size))
                IN kv.ok /\ kv.value = live[key]

\* The process has died with a non-empty value set and not yet closed.
C7_Witness ==
    /\ call.op = "crash"
    /\ state = "Unopened"
    /\ \E key \in DOMAIN live : live[key] # NoText
    /\ file = durable

(***************************************************************************)
(* C8.  Every get, set, remove or list on a closed engine fails with an    *)
(* error.                                                                  *)
(***************************************************************************)
C8_ClosedEngineFails ==
    (state = "Closed" /\ call.op # "close") => ret.status # "ok"

(***************************************************************************)
(* C9.  remove of a key that is not in the key directory does not raise    *)
(* and changes neither the log, the key directory nor the write position.  *)
(***************************************************************************)
C9_RemoveAbsentIsNoOp ==
    [][ (call'.op = "remove" /\ call'.key \notin DOMAIN key_dir)
           => /\ ret'.status = "ok"
              /\ file' = file
              /\ durable' = durable
              /\ key_dir' = key_dir
              /\ write_position' = write_position ]_vars

\* A second remove of a key, after another key was set in between: the log
\* still holds one tombstone for it.
C9_Witness ==
    /\ state = "Ready"
    /\ call.op = "remove"
    /\ ret.status = "ok"
    /\ call.key \notin DOMAIN key_dir
    /\ Cardinality({ i \in RecordsOf(call.key) : history[i].op = "remove" }) = 1
    /\ history[Len(history)].op = "set"
    /\ history[Len(history)].key # call.key

(***************************************************************************)
(* C10.  get of a key that is not in the key directory returns "" and      *)
(* does not raise: the very result of a get of a key set to "".            *)
(***************************************************************************)
C10_GetAbsentIsEmpty ==
    call.op \in GetOps =>
        /\ call.key \notin DOMAIN key_dir => ret = Ok(NoText)
        /\ (state = "Ready" /\ call.key \in DOMAIN live /\ live[call.key] = NoText)
              => ret = Ok(NoText)

\* get of a key never set, in an engine that holds another key.
C10_Witness ==
    /\ state = "Ready"
    /\ call.op = "get"
    /\ call.key \notin DOMAIN key_dir
    /\ RecordsOf(call.key) = {}
    /\ DOMAIN key_dir # {}
    /\ ret = Ok(NoText)

(***************************************************************************)
(* C11.  set(k, "") and remove(k) both append one record for k with an     *)
(* empty value (12 + byte length of k bytes); after the set k is in the    *)
(* key directory, after the remove it is not; and a Ready engine never     *)
(* holds an entry for a key whose last mutation was a remove: an entry     *)
(* means the key was set, absence is how a deleted key shows.              *)
(***************************************************************************)
C11_RemoveDiffersByIndexOnly ==
    state = "Ready" =>
        /\ \A key \in removed : key \notin DOMAIN key_dir
        /\ \A key \in DOMAIN key_dir : key \in DOMAIN live
        /\ (call.op \in {"set", "__setitem__", "remove"}
              /\ ret.status = "ok" /\ history # <<>>
              /\ history[Len(history)].key = call.key
              /\ history[Len(history)].value = NoText)
           => /\ history[Len(history)].size = HEADER_SIZE + Len(Utf8Encode(call.key))
              /\ history[Len(history)].position + history[Len(history)].size = Len(file)
              /\ decode_kv(Read(file, history[Len(history)].position,
                                history[Len(history)].size)).value = NoText
              /\ (call.key \in DOMAIN key_dir) = (history[Len(history)].op = "set")

\* The unsigned 32-bit range, and the UTF-8 byte length of a text.
InU32(n) == n.hi \in 0..65535 /\ n.lo \in 0..65535

ByteLength(text) == Len(Utf8Encode(text))

(***************************************************************************)
(* C12.  decode_kv of the buffer encode_kv(timestamp, key, value) returns  *)
(* gives back (timestamp, key, value) for every timestamp in               *)
(* [0, 2^32 - 1], the size encode_kv returns is 12 + the UTF-8 byte        *)
(* lengths of key and value (and the length of the buffer), empty key and  *)
(* value included; and decode_header of encode_header(t, ks, vs) gives     *)
(* back (t, ks, vs) for every triple in the unsigned 32-bit range.         *)
(***************************************************************************)
C12_CodecRoundTrip ==
    LET args == codec.args
        out == codec.out
    IN /\ (codec.op = "encode_kv" /\ InU32(args.timestamp))
             => /\ out.ok
                /\ out.size = 12 + ByteLength(args.key) + ByteLength(args.value)
                /\ out.size = Len(out.bytes)
                /\ \A i \in 1..Len(out.bytes) : out.bytes[i] \in 0..255
       /\ codec.op = "decode_kv"
             => /\ out.ok
                /\ out.timestamp = args.timestamp
                /\ out.key = args.key
                /\ out.value = args.value
       /\ (codec.op = "encode_header"
           /\ InU32(args.timestamp) /\ InU32(args.key_size) /\ InU32(args.value_size))
             => /\ out.ok
                /\ Len(out.bytes) = 12
                /\ \A i \in 1..Len(out.bytes) : out.bytes[i] \in 0..255
       /\ codec.op = "decode_header"
             => /\ out.ok
                /\ out.timestamp = args.timestamp
                /\ out.key_size = args.key_size
                /\ out.value_size = args.value_size

\* The record (2^32 - 1, "éb", "") decoded from its 15 bytes.
C12_Witness ==
    /\ codec.op = "decode_kv"
    /\ codec.args.timestamp = U32Max
    /\ codec.args.key = <<233, 98>>
    /\ codec.args.value = NoText
    /\ codec.out.ok
    /\ codec.out.key = <<233, 98>>

(***************************************************************************)
(* C13.  encode_header fails with RangeError, and returns no bytes,        *)
(* whenever one of timestamp, key_size, value_size lies outside            *)
(* [0, 2^32 - 1] (2^32 in particular), whichever of the three it is and    *)
(* whatever the other two are; it succeeds otherwise.                      *)
(***************************************************************************)
C13_HeaderFieldOutOfRange ==
    codec.op = "encode_header" =>
        LET outside(n) == n.hi < 0 \/ n.hi > 65535
            bad == \/ outside(codec.args.timestamp)
                   \/ outside(codec.args.key_size)
                   \/ outside(codec.args.value_size)
        IN /\ bad => /\ ~codec.out.ok
                     /\ codec.out.error = "RangeError"
                     /\ codec.out.bytes = <<>>
           /\ ~bad => codec.out.ok

\* encode_header(5, 5, 2^32) has raised.
C13_Witness ==
    /\ codec.op = "encode_header"
    /\ codec.args.timestamp = Wide(5)
    /\ codec.args.key_size = Wide(5)
    /\ codec.args.value_size = TwoTo32
    /\ codec.out.error = "RangeError"

C16_KeyDirIsReplayOfLog ==
    state = "Ready" =>
        LET replay == _init_key_dir(file)
        IN /\ replay.ok
           /\ DOMAIN replay.key_dir = DOMAIN key_dir
           /\ \A key \in DOMAIN key_dir : replay.key_dir[key] = key_dir[key]

(***************************************************************************)
(* C17.  The log is append-only: over every step (open, set, remove, get,  *)
(* list, close) the log before the step is a prefix of the log after it;   *)
(* a successful set, of a new or an existing key, and a successful remove  *)
(* of a key in the key directory extend the log by exactly the encoding    *)
(* of one record.                                                          *)
(***************************************************************************)
C17_LogIsAppendOnly ==
    [][ /\ Len(file') >= Len(file)
        /\ SubSeq(file', 1, Len(file)) = file
        /\ (state = "Ready" /\ ret'.status = "ok"
              /\ \/ call'.op \in {"set", "__setitem__"}
                 \/ call'.op = "remove" /\ call'.key \in DOMAIN key_dir)
           => /\ Len(history') = Len(history) + 1
              /\ LET last == history'[Len(history')]
                 IN /\ last.key = call'.key
                    /\ call'.op = "remove" => last.value = NoText
                    /\ file' = file \o encode_kv(Wide(last.timestamp), last.key,
                                                 last.value).bytes ]_vars

\* A key set, overwritten and removed: three records of it in the log.
C17_Witness ==
    /\ state = "Ready"
    /\ call.op = "remove"
    /\ Len(history) = 3
    /\ \A i \in 1..3 : history[i].key = call.key
    /\ history[1].op = "set" /\ history[2].op = "set" /\ history[3].op = "remove"
    /\ history[1].value # history[2].value
    /\ Len(file) = history[1].size + history[2].size + history[3].size
    /\ decode_kv(Read(file, 0, history[1].size)).value = history[1].value

(***************************************************************************)
(* C18.  remove(k) of a key in the key directory appends one tombstone     *)
(* (key k, empty value, 12 + byte length of k bytes) that is on stable     *)
(* storage when it returns, advances write_position by that size and       *)
(* deletes k's entry, leaving the other entries alone; if the write of     *)
(* the tombstone fails, the key directory and write_position are as they   *)
(* were, k's entry included.                                               *)
(***************************************************************************)
C18_RemoveAppendsTombstone ==
    [][ (state = "Ready" /\ call'.op = "remove" /\ call'.key \in DOMAIN key_dir)
           => LET size == 12 + ByteLength(call'.key)
                  tombstone == decode_kv(Read(file', Len(file), size))
              IN IF ret'.status = "ok"
                 THEN /\ Len(file') = Len(file) + size
                      /\ SubSeq(file', 1, Len(file)) = file
                      /\ tombstone.ok
                      /\ tombstone.key = call'.key
                      /\ tombstone.value = NoText
                      /\ durable' = file'
                      /\ write_position' = write_position + size
                      /\ key_dir' = Without(key_dir, call'.key)
                 ELSE /\ ret'.status = "IOError"
                      /\ faults' = faults + 1
                      /\ key_dir' = key_dir
                      /\ write_position' = write_position ]_vars

\* A remove has failed with part of its tombstone in the file: the key is
\* still in the key directory and still reads its value.
C18_Witness ==
    /\ state = "Ready"
    /\ call.op = "remove"
    /\ ret.status = "IOError"
    /\ call.key \in DOMAIN key_dir
    /\ Len(file) > write_position
    /\ get(call.key).value = <<120, 233>>

(***************************************************************************)
(* C19.  A set that succeeds on an engine whose previous call was a set    *)
(* that failed (with any part of its record already in the file) records   *)
(* for its key the offset at which its record was actually appended, and   *)
(* a get of that key then returns the value just set.                      *)
(***************************************************************************)
C19_SetAfterFailedSet ==
    [][ (/\ state = "Ready"
         /\ call.op = "set" /\ ret.status = "IOError"
         /\ call'.op = "set" /\ ret'.status = "ok")
           => LET key == call'.key
                  entry == key_dir'[key]
                  kv == decode_kv(Read(file', entry.position, entry.size))
              IN /\ entry.position = Len(file)
                 /\ kv.ok
                 /\ kv.key = key
                 /\ kv.value = live'[key] ]_vars

(***************************************************************************)
(* C20.  get and list are read-only: whatever the key, present or absent,  *)
(* a get or list on a Ready engine leaves the log, the key directory and   *)
(* write_position as they were; and a set made when a get has left the     *)
(* handle's offset before end of file still appends its record at the end  *)
(* of the log.                                                             *)
(***************************************************************************)
C20_GetAndListAreReadOnly ==
    [][ /\ (state = "Ready" /\ call'.op \in GetOps \cup {"list"})
              => /\ file' = file
                 /\ durable' = durable
                 /\ key_dir' = key_dir
                 /\ write_position' = write_position
        /\ (state = "Ready" /\ call.op \in GetOps /\ offset < Len(file)
              /\ call'.op \in {"set", "__setitem__"} /\ ret'.status = "ok")
              => LET entry == key_dir'[call'.key]
                 IN /\ SubSeq(file', 1, Len(file)) = file
                    /\ Len(file') = Len(file) + entry.size
                    /\ entry.position = Len(file)
                    /\ decode_kv(Read(file', Len(file), entry.size)).key = call'.key
                    /\ decode_kv(Read(file', Len(file), entry.size)).value
                          = live'[call'.key] ]_vars

\* A get of the first of two records has returned its value and left the
\* handle at the end of that record, before end of file; the log, the key
\* directory and write_position are whole, and a set may follow.
C20_Witness ==
    /\ state = "Ready"
    /\ call.op = "get"
    /\ ret = Ok(<<120, 233>>)
    /\ Len(history) = 2
    /\ Len(history) < MaxAppends
    /\ key_dir[call.key].position = 0
    /\ offset = key_dir[call.key].size
    /\ offset < Len(file)
    /\ write_position = Len(file)
    /\ Cardinality(DOMAIN key_dir) = 2

====
